---- MODULE Spec2Model ----
(***************************************************************************)
(* Model of the metastore synchronisation pipeline of databricks-rust:     *)
(* MetastoreClient (src/api/metastore.rs), SqlClient (src/sql/sql_client.rs)*)
(* and the driver main (src/main.rs).                                      *)
(*                                                                         *)
(* Two specifications share the state:                                     *)
(*   Spec        one run of main: refresh_catalogs, refresh_all_schemas,   *)
(*               refresh_all_tables, against a metastore whose responses   *)
(*               are drawn per request;                                    *)
(*   MirrorSpec  a client of SqlClient calling write_catalogs,             *)
(*               write_schemas and write_tables directly, in any order.    *)
(***************************************************************************)
EXTENDS Integers, Sequences, FiniteSets, Bags, TLC

VARIABLES
    catalogsTbl,    \* table catalogs of the SQLite database: a bag of rows
    schemasTbl,     \* table schemas: a bag of rows
    tablesTbl,      \* table tables: a bag of rows
    pc,             \* position of the process in main / the running phase
    phase,          \* the phase main invoked last
    invoked,        \* the phases main has invoked, in order
    results,        \* the Result each phase returned to main
    cats,           \* refresh_all_*: catalogs.catalogs being iterated
    ci,             \* refresh_all_*: position of the catalog loop
    schs,           \* refresh_all_tables: the schemas being iterated
    si,             \* refresh_all_tables: position of the schema loop
    pending,        \* the response fetched and handed to the next write_*
    trace,          \* requests, writes and pauses of the running phase
    atCall,         \* the three tables as they were when the phase was invoked
    lastCall,       \* MirrorSpec: the last write_* call and its outcome
    repeated,       \* MirrorSpec: the last call repeated the one before it
    lastWritten     \* MirrorSpec: per key, the record of the last statement
                    \* that succeeded for it

storeVars == <<catalogsTbl, schemasTbl, tablesTbl>>
mainVars == <<pc, phase, invoked, results, cats, ci, schs, si, pending, trace, atCall>>
mirrorVars == <<lastCall, repeated, lastWritten>>
vars == <<catalogsTbl, schemasTbl, tablesTbl, pc, phase, invoked, results, cats,
          ci, schs, si, pending, trace, atCall, lastCall, repeated, lastWritten>>

---------------------------------------------------------------------------
(* Bounds of the model *)

MaxCatalogs == 2
MaxSchemas == 2
MaxTables == 1
MaxRecords == 2

---------------------------------------------------------------------------
(* Records: the fields of Catalog, Schema and Table that decide identity,  *)
(* exclusion and content.                                                  *)

DELTASHARING_CATALOG == "DELTASHARING_CATALOG"
MANAGED_CATALOG == "MANAGED_CATALOG"
DatabricksInternal == "__databricks_internal"
AdrianHiveTest == "adrian_hive_test"

Owners == {"alice", "bob"}
SchemaNames == {"s1", "s2"}
TableNames == {"t1"}

Catalog(name, catalog_type, owner) ==
    [name |-> name, catalog_type |-> catalog_type, owner |-> owner]

Schema(name, catalog_name, owner) ==
    [name |-> name, catalog_name |-> catalog_name, owner |-> owner]

Table(name, catalog_name, schema_name, owner) ==
    [name |-> name, catalog_name |-> catalog_name,
     schema_name |-> schema_name, owner |-> owner]

\* Option<Vec<T>>
None == [some |-> FALSE, items |-> <<>>]
Some(items) == [some |-> TRUE, items |-> items]

CatalogResponse(catalogs) == [catalogs |-> catalogs]
SchemaResponse(schemas) == [schemas |-> schemas]
TableResponse(tables) == [tables |-> tables]

SeqsUpTo(S, n) == UNION {[1..k -> S] : k \in 0..n}

\* lists in which no name occurs twice: names are unique within their parent
UniqueNames(S, n) ==
    {s \in SeqsUpTo(S, n) :
        \A i, j \in 1..Len(s) : i # j => s[i].name # s[j].name}

---------------------------------------------------------------------------
(* The database: three tables, each a bag of rows.                         *)

EmptyStore == [catalogs |-> EmptyBag, schemas |-> EmptyBag, tables |-> EmptyBag]
Store == [catalogs |-> catalogsTbl, schemas |-> schemasTbl, tables |-> tablesTbl]

\* the columns bound by the statement, in the order of its column list
CatalogRow(catalog) ==
    [name |-> catalog.name, owner |-> catalog.owner,
     catalog_type |-> catalog.catalog_type]

SchemaRow(schema) ==
    [name |-> schema.name, catalog_name |-> schema.catalog_name,
     owner |-> schema.owner]

TableRow(table) ==
    [name |-> table.name, catalog_name |-> table.catalog_name,
     schema_name |-> table.schema_name, owner |-> table.owner]

\* the key of each table (its declaration is in the migrations)
CatalogKey(row) == <<row.name>>
SchemaKey(row) == <<row.catalog_name, row.name>>
TableKey(row) == <<row.catalog_name, row.schema_name, row.name>>

NaturalKey(kind, row) ==
    CASE kind = "catalogs" -> CatalogKey(row)
      [] kind = "schemas"  -> SchemaKey(row)
      [] kind = "tables"   -> TableKey(row)

\* INSERT without conflict handling on a table that enforces no key
InsertPlain(tbl, kind, row) == tbl (+) SetToBag({row})

\* INSERT OR IGNORE: the row already stored under the key is kept
InsertOrIgnore(tbl, kind, row) ==
    IF \E r \in DOMAIN tbl : NaturalKey(kind, r) = NaturalKey(kind, row)
    THEN tbl
    ELSE tbl (+) SetToBag({row})

\* a mirror kept as a snapshot: the rows of the parent of the row that are under
\* another key than the row's are deleted, the row replaces the one under its key
InsertSnapshot(tbl, kind, row) ==
    LET parent(r) == SubSeq(NaturalKey(kind, r), 1, Len(NaturalKey(kind, r)) - 1)
        kept == {r \in DOMAIN tbl :
                    /\ NaturalKey(kind, r) # NaturalKey(kind, row)
                    /\ parent(r) # parent(row)}
    IN  [r \in kept |-> tbl[r]] (+) SetToBag({row})

\* INSERT OR REPLACE: rows in conflict on the key are deleted, the row is added
InsertOrReplace(tbl, kind, row) ==
    LET kept == {r \in DOMAIN tbl : NaturalKey(kind, r) # NaturalKey(kind, row)}
    IN  [r \in kept |-> tbl[r]] (+) SetToBag({row})

Stmt(idx, row, ok) == [idx |-> idx, row |-> row, ok |-> ok]
Outcome(tbl, stmts, result) == [tbl |-> tbl, stmts |-> stmts, result |-> result]

\* the condition under which write_catalogs executes a statement
MirrorWrites(catalog) ==
    catalog.catalog_type # DELTASHARING_CATALOG /\ catalog.name # DatabricksInternal

(* write_catalogs: failAt is the position of the record whose statement    *)
(* the storage engine rejects (0: none).                                   *)
RECURSIVE write_catalogs_from(_, _, _, _, _)
write_catalogs_from(tbl, items, failAt, i, stmts) ==
    IF i > Len(items) THEN Outcome(tbl, stmts, "Ok")
    ELSE IF ~MirrorWrites(items[i])
         THEN write_catalogs_from(tbl, items, failAt, i + 1, stmts)
    ELSE IF i = failAt
         THEN Outcome(tbl, Append(stmts, Stmt(i, CatalogRow(items[i]), FALSE)), "Err")
    ELSE write_catalogs_from(InsertOrReplace(tbl, "catalogs", CatalogRow(items[i])),
                             items, failAt, i + 1,
                             Append(stmts, Stmt(i, CatalogRow(items[i]), TRUE)))

write_catalogs(tbl, catalog_response, failAt) ==
    write_catalogs_from(tbl, catalog_response.catalogs, failAt, 1, <<>>)

RECURSIVE write_schemas_from(_, _, _, _, _)
write_schemas_from(tbl, items, failAt, i, stmts) ==
    IF i > Len(items) THEN Outcome(tbl, stmts, "Ok")
    ELSE IF i = failAt
         THEN Outcome(tbl, Append(stmts, Stmt(i, SchemaRow(items[i]), FALSE)), "Err")
    ELSE write_schemas_from(InsertOrReplace(tbl, "schemas", SchemaRow(items[i])),
                            items, failAt, i + 1,
                            Append(stmts, Stmt(i, SchemaRow(items[i]), TRUE)))

write_schemas(tbl, schema_response, failAt) ==
    IF schema_response.schemas.some
    THEN write_schemas_from(tbl, schema_response.schemas.items, failAt, 1, <<>>)
    ELSE Outcome(tbl, <<>>, "Ok")

RECURSIVE write_tables_from(_, _, _, _, _)
write_tables_from(tbl, items, failAt, i, stmts) ==
    IF i > Len(items) THEN Outcome(tbl, stmts, "Ok")
    ELSE IF i = failAt
         THEN Outcome(tbl, Append(stmts, Stmt(i, TableRow(items[i]), FALSE)), "Err")
    ELSE write_tables_from(InsertOrReplace(tbl, "tables", TableRow(items[i])),
                           items, failAt, i + 1,
                           Append(stmts, Stmt(i, TableRow(items[i]), TRUE)))

\* a loop that logs the error of a statement and goes on with the next record
RECURSIVE write_tables_continue_from(_, _, _, _, _, _)
write_tables_continue_from(tbl, items, failAt, i, stmts, result) ==
    IF i > Len(items) THEN Outcome(tbl, stmts, result)
    ELSE IF i = failAt
         THEN write_tables_continue_from(tbl, items, failAt, i + 1,
                  Append(stmts, Stmt(i, TableRow(items[i]), FALSE)), "Err")
    ELSE write_tables_continue_from(
             InsertOrReplace(tbl, "tables", TableRow(items[i])), items, failAt, i + 1,
             Append(stmts, Stmt(i, TableRow(items[i]), TRUE)), result)

write_tables_continue(tbl, table_response, failAt) ==
    IF table_response.tables.some
    THEN write_tables_continue_from(tbl, table_response.tables.items, failAt, 1, <<>>, "Ok")
    ELSE Outcome(tbl, <<>>, "Ok")

write_tables(tbl, table_response, failAt) ==
    IF table_response.tables.some
    THEN write_tables_from(tbl, table_response.tables.items, failAt, 1, <<>>)
    ELSE Outcome(tbl, <<>>, "Ok")

\* the records of a response, whatever its kind
Items(kind, response) ==
    CASE kind = "catalogs" -> response.catalogs
      [] kind = "schemas"  -> response.schemas.items
      [] kind = "tables"   -> response.tables.items

RowOf(kind, record) ==
    CASE kind = "catalogs" -> CatalogRow(record)
      [] kind = "schemas"  -> SchemaRow(record)
      [] kind = "tables"   -> TableRow(record)

\* whether write_<kind> executes a statement for the record
Writes(kind, record) == kind = "catalogs" => MirrorWrites(record)

---------------------------------------------------------------------------
(* The metastore seen through APIClient::fetch: the request either fails   *)
(* in transport or returns a body, which decodes to the expected shape or  *)
(* does not.                                                               *)

UpstreamOwner == "alice"

UpstreamCatalogs ==
    {Catalog("main", MANAGED_CATALOG, UpstreamOwner),
     Catalog("dev", MANAGED_CATALOG, UpstreamOwner),
     Catalog("share", DELTASHARING_CATALOG, UpstreamOwner),
     Catalog(DatabricksInternal, MANAGED_CATALOG, UpstreamOwner),
     Catalog(AdrianHiveTest, MANAGED_CATALOG, UpstreamOwner)}

CatalogLists == UniqueNames(UpstreamCatalogs, MaxCatalogs)

SchemaLists(catalog_name) ==
    UniqueNames({Schema(n, catalog_name, UpstreamOwner) : n \in SchemaNames}, MaxSchemas)

TableLists(catalog_name, schema_name) ==
    UniqueNames({Table(n, catalog_name, schema_name, UpstreamOwner) : n \in TableNames},
                MaxTables)

Options(lists) == {None} \cup {Some(l) : l \in lists}

Wire(status, wellformed, body) ==
    [status |-> status, wellformed |-> wellformed, body |-> body]

\* the answers to a request: a decodable body, a body of another shape (of
\* which a lenient decoder would keep `body`), or no answer
Answers(bodies, empty) ==
    {Wire("ok", TRUE, b) : b \in bodies}
        \cup {Wire("ok", FALSE, b) : b \in bodies}
        \cup {Wire("error", FALSE, empty)}

CatalogAnswers == Answers({CatalogResponse(l) : l \in CatalogLists}, CatalogResponse(<<>>))

SchemaAnswers(catalog_name) ==
    Answers({SchemaResponse(o) : o \in Options(SchemaLists(catalog_name))},
            SchemaResponse(None))

TableAnswers(catalog_name, schema_name) ==
    Answers({TableResponse(o) : o \in Options(TableLists(catalog_name, schema_name))},
            TableResponse(None))

WireKind(answer) ==
    IF answer.status # "ok" THEN "unreachable"
    ELSE IF answer.wellformed THEN "ok" ELSE "malformed"

Ok(val) == [ok |-> TRUE, err |-> "", val |-> val]
Err(err, empty) == [ok |-> FALSE, err |-> err, val |-> empty]

\* a decoder that keeps what it can of a body of another shape
fetch_catalogs_lenient(answer) ==
    IF answer.status # "ok" THEN Err("TransportError", CatalogResponse(<<>>))
    ELSE Ok(answer.body)

fetch_catalogs(answer) ==
    IF answer.status # "ok" THEN Err("TransportError", CatalogResponse(<<>>))
    ELSE IF ~answer.wellformed THEN Err("DecodeError", CatalogResponse(<<>>))
    ELSE Ok(answer.body)

fetch_schemas(answer) ==
    IF answer.status # "ok" THEN Err("TransportError", SchemaResponse(None))
    ELSE IF ~answer.wellformed THEN Err("DecodeError", SchemaResponse(None))
    ELSE Ok(answer.body)

fetch_tables(answer) ==
    IF answer.status # "ok" THEN Err("TransportError", TableResponse(None))
    ELSE IF ~answer.wellformed THEN Err("DecodeError", TableResponse(None))
    ELSE Ok(answer.body)

---------------------------------------------------------------------------
(* Events of the running phase *)

FetchEvent(op, catalog, schema, answer, res) ==
    [op |-> op, catalog |-> catalog, schema |-> schema, wire |-> WireKind(answer),
     ok |-> res.ok, err |-> res.err, val |-> res.val, stmts |-> <<>>, failAt |-> 0,
     secs |-> 0]

WriteEvent(op, response, failAt, out) ==
    [op |-> op, catalog |-> "", schema |-> "", wire |-> "",
     ok |-> out.result = "Ok", err |-> "", val |-> response, stmts |-> out.stmts,
     failAt |-> failAt, secs |-> 0]

SleepEvent(secs) ==
    [op |-> "sleep", catalog |-> "", schema |-> "", wire |-> "",
     ok |-> TRUE, err |-> "", val |-> None, stmts |-> <<>>, failAt |-> 0,
     secs |-> secs]

IsWrite(e) == e.op \in {"write_catalogs", "write_schemas", "write_tables"}

---------------------------------------------------------------------------
(* main and the three phases *)

Phases == <<"catalogs", "schemas", "tables">>
NoPending == CatalogResponse(<<>>)
PacingSecs == 1

Init ==
    /\ catalogsTbl = EmptyBag
    /\ schemasTbl = EmptyBag
    /\ tablesTbl = EmptyBag
    /\ pc = "main"
    /\ phase = "none"
    /\ invoked = <<>>
    /\ results = [p \in {"catalogs", "schemas", "tables"} |-> "none"]
    /\ cats = <<>>
    /\ ci = 0
    /\ schs = <<>>
    /\ si = 0
    /\ pending = NoPending
    /\ trace = <<>>
    /\ atCall = EmptyStore
    /\ lastCall = [kind |-> "none", coll |-> NoPending, failAt |-> 0,
                   before |-> EmptyStore, result |-> "none", stmts |-> <<>>]
    /\ repeated = FALSE
    /\ lastWritten = [catalogs |-> {}, schemas |-> {}, tables |-> {}]

\* main invokes a phase
Invoke(p, entry) ==
    /\ phase' = p
    /\ invoked' = Append(invoked, p)
    /\ trace' = <<>>
    /\ atCall' = Store
    /\ pc' = entry
    /\ UNCHANGED <<results, cats, ci, schs, si, pending>>

\* the running phase returns r to its caller
Return(r) ==
    /\ results' = [results EXCEPT ![phase] = r]
    /\ pc' = "main"
    /\ cats' = <<>>
    /\ ci' = 0
    /\ schs' = <<>>
    /\ si' = 0
    /\ pending' = NoPending

\* unwrap() of an Err: the panic unwinds through main and ends the process
Panic ==
    /\ pc' = "panicked"
    /\ UNCHANGED <<results, cats, ci, schs, si, pending>>

\* the exclusion test of refresh_all_schemas
IncludedForSchemas(catalog) ==
    /\ catalog.catalog_type # DELTASHARING_CATALOG
    /\ catalog.name # DatabricksInternal
    /\ catalog.name # AdrianHiveTest

\* a test that forgets the delta sharing catalogs
IncludedByNameOnly(catalog) ==
    /\ catalog.name # DatabricksInternal
    /\ catalog.name # AdrianHiveTest

\* the exclusion test of refresh_all_tables
IncludedForTables(catalog) ==
    /\ catalog.catalog_type # DELTASHARING_CATALOG
    /\ catalog.name # DatabricksInternal
    /\ catalog.name # AdrianHiveTest

Main_refresh_catalogs ==
    /\ pc = "main"
    /\ phase = "none"
    /\ Invoke("catalogs", "rc103")
    /\ UNCHANGED <<storeVars, mirrorVars>>

RC_fetch_catalogs ==
    /\ pc = "rc103"
    /\ \E answer \in CatalogAnswers :
         LET res == fetch_catalogs(answer) IN
         /\ trace' = Append(trace, FetchEvent("fetch_catalogs", "", "", answer, res))
         /\ IF res.ok
            THEN /\ pending' = res.val
                 /\ pc' = "rc104"
                 /\ UNCHANGED <<results, cats, ci, schs, si>>
            ELSE Return("Err")
    /\ UNCHANGED <<storeVars, mirrorVars, phase, invoked, atCall>>

RC_write_catalogs ==
    /\ pc = "rc104"
    /\ \E failAt \in 0..Len(pending.catalogs) :
         LET out == write_catalogs(catalogsTbl, pending, failAt) IN
         /\ catalogsTbl' = out.tbl
         /\ trace' = Append(trace, WriteEvent("write_catalogs", pending, failAt, out))
         /\ IF out.result = "Ok" THEN Return("Ok") ELSE Panic
    /\ UNCHANGED <<schemasTbl, tablesTbl, mirrorVars, phase, invoked, atCall>>

Main_refresh_all_schemas ==
    /\ pc = "main"
    /\ phase = "catalogs"
    /\ Invoke("schemas", "rs111")
    /\ UNCHANGED <<storeVars, mirrorVars>>

RS_fetch_catalogs ==
    /\ pc = "rs111"
    /\ \E answer \in CatalogAnswers :
         LET res == fetch_catalogs(answer) IN
         /\ trace' = Append(trace, FetchEvent("fetch_catalogs", "", "", answer, res))
         /\ IF res.ok
            THEN /\ cats' = res.val.catalogs
                 /\ ci' = 1
                 /\ pc' = "rs113"
                 /\ UNCHANGED <<results, schs, si, pending>>
            ELSE Return("Err")
    /\ UNCHANGED <<storeVars, mirrorVars, phase, invoked, atCall>>

RS_end ==
    /\ pc = "rs113"
    /\ ci > Len(cats)
    /\ Return("Ok")
    /\ UNCHANGED <<storeVars, mirrorVars, phase, invoked, atCall, trace>>

RS_skip ==
    /\ pc = "rs113"
    /\ ci <= Len(cats)
    /\ ~IncludedForSchemas(cats[ci])
    /\ ci' = ci + 1
    /\ UNCHANGED <<storeVars, mirrorVars, phase, invoked, atCall, trace, pc, results,
                   cats, schs, si, pending>>

\* a loop that gives up on the catalog whose request failed and goes on
RS_fetch_schemas_skip ==
    /\ pc = "rs113"
    /\ ci <= Len(cats)
    /\ IncludedForSchemas(cats[ci])
    /\ \E answer \in SchemaAnswers(cats[ci].name) :
         LET res == fetch_schemas(answer) IN
         /\ trace' = Append(trace,
                        FetchEvent("fetch_schemas", cats[ci].name, "", answer, res))
         /\ IF res.ok
            THEN /\ pending' = res.val
                 /\ pc' = "rs117"
                 /\ UNCHANGED <<results, cats, ci, schs, si>>
            ELSE /\ ci' = ci + 1
                 /\ UNCHANGED <<pc, results, cats, schs, si, pending>>
    /\ UNCHANGED <<storeVars, mirrorVars, phase, invoked, atCall>>

RS_fetch_schemas ==
    /\ pc = "rs113"
    /\ ci <= Len(cats)
    /\ IncludedForSchemas(cats[ci])
    /\ \E answer \in SchemaAnswers(cats[ci].name) :
         LET res == fetch_schemas(answer) IN
         /\ trace' = Append(trace,
                        FetchEvent("fetch_schemas", cats[ci].name, "", answer, res))
         /\ IF res.ok
            THEN /\ pending' = res.val
                 /\ pc' = "rs117"
                 /\ UNCHANGED <<results, cats, ci, schs, si>>
            ELSE Return("Err")
    /\ UNCHANGED <<storeVars, mirrorVars, phase, invoked, atCall>>

RS_write_schemas ==
    /\ pc = "rs117"
    /\ \E failAt \in 0..Len(pending.schemas.items) :
         LET out == write_schemas(schemasTbl, pending, failAt) IN
         /\ schemasTbl' = out.tbl
         /\ trace' = Append(trace, WriteEvent("write_schemas", pending, failAt, out))
         /\ IF out.result = "Ok"
            THEN /\ pc' = "rs118"
                 /\ pending' = NoPending
                 /\ UNCHANGED <<results, cats, ci, schs, si>>
            ELSE Panic
    /\ UNCHANGED <<catalogsTbl, tablesTbl, mirrorVars, phase, invoked, atCall>>

\* a loop without the pause
RS_sleep_none ==
    /\ pc = "rs118"
    /\ ci' = ci + 1
    /\ pc' = "rs113"
    /\ UNCHANGED <<storeVars, mirrorVars, phase, invoked, atCall, trace, results, cats,
                   schs, si, pending>>

RS_sleep ==
    /\ pc = "rs118"
    /\ trace' = Append(trace, SleepEvent(PacingSecs))
    /\ ci' = ci + 1
    /\ pc' = "rs113"
    /\ UNCHANGED <<storeVars, mirrorVars, phase, invoked, atCall, results, cats,
                   schs, si, pending>>

Main_refresh_all_tables ==
    /\ pc = "main"
    /\ phase = "schemas"
    /\ Invoke("tables", "rt126")
    /\ UNCHANGED <<storeVars, mirrorVars>>

RT_fetch_catalogs ==
    /\ pc = "rt126"
    /\ \E answer \in CatalogAnswers :
         LET res == fetch_catalogs(answer) IN
         /\ trace' = Append(trace, FetchEvent("fetch_catalogs", "", "", answer, res))
         /\ IF res.ok
            THEN /\ cats' = res.val.catalogs
                 /\ ci' = 1
                 /\ pc' = "rt129"
                 /\ UNCHANGED <<results, schs, si, pending>>
            ELSE Return("Err")
    /\ UNCHANGED <<storeVars, mirrorVars, phase, invoked, atCall>>

RT_end ==
    /\ pc = "rt129"
    /\ ci > Len(cats)
    /\ Return("Ok")
    /\ UNCHANGED <<storeVars, mirrorVars, phase, invoked, atCall, trace>>

RT_skip ==
    /\ pc = "rt129"
    /\ ci <= Len(cats)
    /\ ~IncludedForTables(cats[ci])
    /\ ci' = ci + 1
    /\ UNCHANGED <<storeVars, mirrorVars, phase, invoked, atCall, trace, pc, results,
                   cats, schs, si, pending>>

RT_fetch_schemas ==
    /\ pc = "rt129"
    /\ ci <= Len(cats)
    /\ IncludedForTables(cats[ci])
    /\ \E answer \in SchemaAnswers(cats[ci].name) :
         LET res == fetch_schemas(answer) IN
         /\ trace' = Append(trace,
                        FetchEvent("fetch_schemas", cats[ci].name, "", answer, res))
         /\ IF ~res.ok THEN Return("Err")
            ELSE IF res.val.schemas.some
            THEN /\ schs' = res.val.schemas.items
                 /\ si' = 1
                 /\ pc' = "rt135"
                 /\ UNCHANGED <<results, cats, ci, pending>>
            ELSE /\ ci' = ci + 1
                 /\ UNCHANGED <<pc, results, cats, schs, si, pending>>
    /\ UNCHANGED <<storeVars, mirrorVars, phase, invoked, atCall>>

RT_schemas_end ==
    /\ pc = "rt135"
    /\ si > Len(schs)
    /\ ci' = ci + 1
    /\ schs' = <<>>
    /\ si' = 0
    /\ pc' = "rt129"
    /\ UNCHANGED <<storeVars, mirrorVars, phase, invoked, atCall, trace, results, cats,
                   pending>>

\* a loop that requests the tables of every schema before it writes any
RT_fetch_tables_unwritten ==
    /\ pc = "rt135"
    /\ si <= Len(schs)
    /\ \E answer \in TableAnswers(cats[ci].name, schs[si].name) :
         LET res == fetch_tables(answer) IN
         /\ trace' = Append(trace, FetchEvent("fetch_tables", cats[ci].name,
                                              schs[si].name, answer, res))
         /\ IF ~res.ok THEN Return("Err")
            ELSE IF res.val.tables.some /\ si = Len(schs)
            THEN /\ pending' = res.val
                 /\ pc' = "rt140"
                 /\ UNCHANGED <<results, cats, ci, schs, si>>
            ELSE /\ si' = si + 1
                 /\ UNCHANGED <<pc, results, cats, ci, schs, pending>>
    /\ UNCHANGED <<storeVars, mirrorVars, phase, invoked, atCall>>

RT_fetch_tables ==
    /\ pc = "rt135"
    /\ si <= Len(schs)
    /\ \E answer \in TableAnswers(cats[ci].name, schs[si].name) :
         LET res == fetch_tables(answer) IN
         /\ trace' = Append(trace, FetchEvent("fetch_tables", cats[ci].name,
                                              schs[si].name, answer, res))
         /\ IF ~res.ok THEN Return("Err")
            ELSE IF res.val.tables.some
            THEN /\ pending' = res.val
                 /\ pc' = "rt140"
                 /\ UNCHANGED <<results, cats, ci, schs, si>>
            ELSE /\ si' = si + 1
                 /\ UNCHANGED <<pc, results, cats, ci, schs, pending>>
    /\ UNCHANGED <<storeVars, mirrorVars, phase, invoked, atCall>>

RT_write_tables ==
    /\ pc = "rt140"
    /\ \E failAt \in 0..Len(pending.tables.items) :
         LET out == write_tables(tablesTbl, pending, failAt) IN
         /\ tablesTbl' = out.tbl
         /\ trace' = Append(trace, WriteEvent("write_tables", pending, failAt, out))
         /\ IF out.result = "Ok"
            THEN /\ si' = si + 1
                 /\ pc' = "rt135"
                 /\ pending' = NoPending
                 /\ UNCHANGED <<results, cats, ci, schs>>
            ELSE Panic
    /\ UNCHANGED <<catalogsTbl, schemasTbl, mirrorVars, phase, invoked, atCall>>

\* main returns Ok(()) whatever the phases returned; the process ends and only
\* the database (and what main was given as results) remains
Main_return ==
    /\ pc = "main"
    /\ phase = "tables"
    /\ pc' = "exit"
    /\ trace' = <<>>
    /\ UNCHANGED <<storeVars, mirrorVars, phase, invoked, results, cats, ci, schs, si,
                   pending, atCall>>

Next ==
    \/ Main_refresh_catalogs
    \/ RC_fetch_catalogs
    \/ RC_write_catalogs
    \/ Main_refresh_all_schemas
    \/ RS_fetch_catalogs
    \/ RS_end
    \/ RS_skip
    \/ RS_fetch_schemas
    \/ RS_write_schemas
    \/ RS_sleep
    \/ Main_refresh_all_tables
    \/ RT_fetch_catalogs
    \/ RT_end
    \/ RT_skip
    \/ RT_fetch_schemas
    \/ RT_schemas_end
    \/ RT_fetch_tables
    \/ RT_write_tables
    \/ Main_return

Spec == Init /\ [][Next]_vars

---------------------------------------------------------------------------
(* PhaseSpec: one of the three operations of MetastoreClient, invoked on a  *)
(* database that is empty or holds the rows of an earlier run.             *)

StaleOwner == "bob"

StaleStore ==
    [catalogs |-> SetToBag({CatalogRow(Catalog("main", MANAGED_CATALOG, StaleOwner))}),
     schemas |-> SetToBag({SchemaRow(Schema("s1", "main", StaleOwner))}),
     tables |-> SetToBag({TableRow(Table("t1", "main", "s1", StaleOwner))})]

PhaseInit ==
    /\ \E prior \in {EmptyStore, StaleStore} :
          /\ catalogsTbl = prior.catalogs
          /\ schemasTbl = prior.schemas
          /\ tablesTbl = prior.tables
    /\ pc = "main"
    /\ phase = "none"
    /\ invoked = <<>>
    /\ results = [p \in {"catalogs", "schemas", "tables"} |-> "none"]
    /\ cats = <<>>
    /\ ci = 0
    /\ schs = <<>>
    /\ si = 0
    /\ pending = NoPending
    /\ trace = <<>>
    /\ atCall = EmptyStore
    /\ lastCall = [kind |-> "none", coll |-> NoPending, failAt |-> 0,
                   before |-> EmptyStore, result |-> "none", stmts |-> <<>>]
    /\ repeated = FALSE
    /\ lastWritten = [catalogs |-> {}, schemas |-> {}, tables |-> {}]

Call_refresh_catalogs ==
    /\ pc = "main"
    /\ phase = "none"
    /\ Invoke("catalogs", "rc103")
    /\ UNCHANGED <<storeVars, mirrorVars>>

Call_refresh_all_schemas ==
    /\ pc = "main"
    /\ phase = "none"
    /\ Invoke("schemas", "rs111")
    /\ UNCHANGED <<storeVars, mirrorVars>>

Call_refresh_all_tables ==
    /\ pc = "main"
    /\ phase = "none"
    /\ Invoke("tables", "rt126")
    /\ UNCHANGED <<storeVars, mirrorVars>>

PhaseNext ==
    \/ Call_refresh_catalogs
    \/ RC_fetch_catalogs
    \/ RC_write_catalogs
    \/ Call_refresh_all_schemas
    \/ RS_fetch_catalogs
    \/ RS_end
    \/ RS_skip
    \/ RS_fetch_schemas
    \/ RS_write_schemas
    \/ RS_sleep
    \/ Call_refresh_all_tables
    \/ RT_fetch_catalogs
    \/ RT_end
    \/ RT_skip
    \/ RT_fetch_schemas
    \/ RT_schemas_end
    \/ RT_fetch_tables
    \/ RT_write_tables

PhaseSpec == PhaseInit /\ [][PhaseNext]_vars

---------------------------------------------------------------------------
(* RunsSpec: the three operations of MetastoreClient invoked one after the  *)
(* other, in any order, on a database that is empty or holds the rows of    *)
(* earlier runs; a process that panicked is started again on the database.  *)

MaxRuns == 2

\* the rows of earlier runs: those of catalog main, which the metastore may no
\* longer return, and those of catalog share, written when it was a managed
\* catalog, which the metastore now returns as a delta sharing catalog
EarlierStore ==
    [catalogs |-> SetToBag({CatalogRow(Catalog("main", MANAGED_CATALOG, StaleOwner)),
                            CatalogRow(Catalog("share", MANAGED_CATALOG, StaleOwner))}),
     schemas |-> SetToBag({SchemaRow(Schema("s1", "main", StaleOwner)),
                           SchemaRow(Schema("s1", "share", StaleOwner))}),
     tables |-> SetToBag({TableRow(Table("t1", "main", "s1", StaleOwner)),
                          TableRow(Table("t1", "share", "s1", StaleOwner))})]

RunsInit ==
    /\ \E prior \in {EmptyStore, EarlierStore} :
          /\ catalogsTbl = prior.catalogs
          /\ schemasTbl = prior.schemas
          /\ tablesTbl = prior.tables
    /\ pc = "main"
    /\ phase = "none"
    /\ invoked = <<>>
    /\ results = [p \in {"catalogs", "schemas", "tables"} |-> "none"]
    /\ cats = <<>>
    /\ ci = 0
    /\ schs = <<>>
    /\ si = 0
    /\ pending = NoPending
    /\ trace = <<>>
    /\ atCall = EmptyStore
    /\ lastCall = [kind |-> "none", coll |-> NoPending, failAt |-> 0,
                   before |-> EmptyStore, result |-> "none", stmts |-> <<>>]
    /\ repeated = FALSE
    /\ lastWritten = [catalogs |-> {}, schemas |-> {}, tables |-> {}]

Run_refresh_catalogs ==
    /\ pc = "main"
    /\ Len(invoked) < MaxRuns
    /\ Invoke("catalogs", "rc103")
    /\ UNCHANGED <<storeVars, mirrorVars>>

Run_refresh_all_schemas ==
    /\ pc = "main"
    /\ Len(invoked) < MaxRuns
    /\ Invoke("schemas", "rs111")
    /\ UNCHANGED <<storeVars, mirrorVars>>

Run_refresh_all_tables ==
    /\ pc = "main"
    /\ Len(invoked) < MaxRuns
    /\ Invoke("tables", "rt126")
    /\ UNCHANGED <<storeVars, mirrorVars>>

\* the process that panicked is started again: SqlClient::new opens the
\* database as the panic left it
Restart ==
    /\ pc = "panicked"
    /\ pc' = "main"
    /\ cats' = <<>>
    /\ ci' = 0
    /\ schs' = <<>>
    /\ si' = 0
    /\ pending' = NoPending
    /\ UNCHANGED <<storeVars, mirrorVars, phase, invoked, results, trace, atCall>>

RunsNext ==
    \/ Run_refresh_catalogs
    \/ RC_fetch_catalogs
    \/ RC_write_catalogs
    \/ Run_refresh_all_schemas
    \/ RS_fetch_catalogs
    \/ RS_end
    \/ RS_skip
    \/ RS_fetch_schemas
    \/ RS_write_schemas
    \/ RS_sleep
    \/ Run_refresh_all_tables
    \/ RT_fetch_catalogs
    \/ RT_end
    \/ RT_skip
    \/ RT_fetch_schemas
    \/ RT_schemas_end
    \/ RT_fetch_tables
    \/ RT_write_tables
    \/ Restart

RunsSpec == RunsInit /\ [][RunsNext]_vars

---------------------------------------------------------------------------
(* MirrorSpec: a client of SqlClient that calls one of write_catalogs,     *)
(* write_schemas and write_tables, any number of times, with any           *)
(* collection and any statement failing.                                   *)

MirrorCatalogs ==
    {Catalog("main", MANAGED_CATALOG, o) : o \in Owners}
        \cup {Catalog("main", DELTASHARING_CATALOG, UpstreamOwner),
              Catalog(DatabricksInternal, MANAGED_CATALOG, UpstreamOwner)}

MirrorSchemas == {Schema("s1", "main", o) : o \in Owners}

MirrorTables == {Table(n, "main", s, o) : n \in TableNames, s \in SchemaNames, o \in Owners}

CatalogCollections == {CatalogResponse(l) : l \in SeqsUpTo(MirrorCatalogs, MaxRecords)}
SchemaCollections == {SchemaResponse(o) : o \in Options(SeqsUpTo(MirrorSchemas, MaxRecords))}
TableCollections == {TableResponse(o) : o \in Options(SeqsUpTo(MirrorTables, MaxRecords))}

\* the positions of the statements of `stmts` that succeeded and were not
\* followed by a later successful statement for the same key
LastOk(kind, stmts) ==
    {j \in 1..Len(stmts) :
        /\ stmts[j].ok
        /\ \A k \in (j + 1)..Len(stmts) :
             stmts[k].ok => NaturalKey(kind, stmts[k].row) # NaturalKey(kind, stmts[j].row)}

Recorded(kind, rows, stmts) ==
    {r \in rows : \A j \in 1..Len(stmts) :
                     stmts[j].ok => NaturalKey(kind, stmts[j].row) # NaturalKey(kind, r)}
        \cup {stmts[j].row : j \in LastOk(kind, stmts)}

\* what the client notes of a call
Noted(kind, response, failAt, out) ==
    /\ lastCall' = [kind |-> kind, coll |-> response, failAt |-> failAt,
                    before |-> Store, result |-> out.result, stmts |-> out.stmts]
    /\ repeated' = (/\ lastCall.kind = kind
                    /\ lastCall.coll = response
                    /\ lastCall.result = "Ok"
                    /\ out.result = "Ok")
    /\ lastWritten' = [lastWritten EXCEPT
                          ![kind] = Recorded(kind, lastWritten[kind], out.stmts)]

Call_write_catalogs ==
    /\ lastCall.kind \in {"none", "catalogs"}
    /\ \E response \in CatalogCollections :
         \E failAt \in 0..Len(response.catalogs) :
            LET out == write_catalogs(catalogsTbl, response, failAt) IN
            /\ catalogsTbl' = out.tbl
            /\ Noted("catalogs", response, failAt, out)
    /\ UNCHANGED <<schemasTbl, tablesTbl, mainVars>>

Call_write_schemas ==
    /\ lastCall.kind \in {"none", "schemas"}
    /\ \E response \in SchemaCollections :
         \E failAt \in 0..Len(response.schemas.items) :
            LET out == write_schemas(schemasTbl, response, failAt) IN
            /\ schemasTbl' = out.tbl
            /\ Noted("schemas", response, failAt, out)
    /\ UNCHANGED <<catalogsTbl, tablesTbl, mainVars>>

Call_write_tables ==
    /\ lastCall.kind \in {"none", "tables"}
    /\ \E response \in TableCollections :
         \E failAt \in 0..Len(response.tables.items) :
            LET out == write_tables(tablesTbl, response, failAt) IN
            /\ tablesTbl' = out.tbl
            /\ Noted("tables", response, failAt, out)
    /\ UNCHANGED <<catalogsTbl, schemasTbl, mainVars>>

MirrorNext ==
    \/ Call_write_catalogs
    \/ Call_write_schemas
    \/ Call_write_tables

MirrorSpec == Init /\ [][MirrorNext]_vars

---------------------------------------------------------------------------
(* Properties *)

Kinds == {"catalogs", "schemas", "tables"}

\* the exclusion rule: a delta sharing catalog, or one of the two reserved names
Excluded(catalog) ==
    \/ catalog.catalog_type = "DELTASHARING_CATALOG"
    \/ catalog.name \in {"__databricks_internal", "adrian_hive_test"}

Events(op) == {i \in 1..Len(trace) : trace[i].op = op}

\* the catalogs returned by the catalogs request of the running phase
Returned ==
    {trace[j].val.catalogs[k] : <<j, k>> \in
        {<<j, k>> \in (1..Len(trace)) \X (1..MaxCatalogs + 1) :
            /\ trace[j].op = "fetch_catalogs"
            /\ trace[j].ok
            /\ k <= Len(trace[j].val.catalogs)}}

(* C1: in refresh_all_schemas and refresh_all_tables no schema request and  *)
(* no table request names a catalog that the catalogs request of the run    *)
(* returned and that is excluded (delta sharing, or a reserved name).       *)
C1_NoFetchForExcluded ==
    phase \in {"schemas", "tables"} =>
        \A i \in Events("fetch_schemas") \cup Events("fetch_tables") :
            \A c \in Returned : Excluded(c) => trace[i].catalog # c.name

C1_Witness ==
    /\ phase = "tables"
    /\ Events("fetch_tables") # {}
    /\ \E c \in Returned : c.catalog_type = "DELTASHARING_CATALOG"

(* C2: write_catalogs executes no statement for an excluded catalog (delta  *)
(* sharing, or either reserved name), so the catalogs table never holds a   *)
(* row for one.                                                            *)
C2_NoRowForExcluded ==
    /\ \A i \in Events("write_catalogs") :
           \A j \in 1..Len(trace[i].stmts) : ~Excluded(trace[i].stmts[j].row)
    /\ \A r \in DOMAIN catalogsTbl : ~Excluded(r)

(* C3: a write_* call that repeats the call before it, both succeeding,     *)
(* leaves every table with the rows it had after the first call.           *)
C3_Idempotent == repeated => Store = lastCall.before

C3_Witness ==
    /\ repeated
    /\ lastCall.kind = "tables"
    /\ Len(lastCall.stmts) = 2
    /\ lastCall.stmts[1].row # lastCall.stmts[2].row

\* no two rows of the table share their key
KeysUnique(kind, tbl) ==
    \A r1, r2 \in DOMAIN tbl :
        NaturalKey(kind, r1) = NaturalKey(kind, r2) => r1 = r2

(* C4: each table holds one row per key for which a statement succeeded,    *)
(* once, and that row is the record of the last such statement, in every    *)
(* field; it holds no other row.                                            *)
C4_LastWriteWins ==
    \A kind \in Kinds :
        /\ Store[kind] = SetToBag(lastWritten[kind])
        /\ KeysUnique(kind, Store[kind])

C4_Witness ==
    /\ lastCall.kind = "tables"
    /\ lastCall.result = "Ok"
    /\ \E r1 \in DOMAIN lastCall.before.tables : \E r2 \in DOMAIN tablesTbl :
          /\ TableKey(r1) = TableKey(r2)
          /\ r1.owner = "alice"
          /\ r2.owner = "bob"
    /\ \E r \in DOMAIN tablesTbl : \A r0 \in DOMAIN lastCall.before.tables :
          TableKey(r) # TableKey(r0)

(* C5: when the body of the catalogs request of refresh_catalogs does not   *)
(* decode, refresh_catalogs returns an error, no write is made and the      *)
(* catalogs table is as it was when refresh_catalogs was called.            *)
C5_DecodeErrorLeavesCatalogs ==
    (/\ phase = "catalogs"
     /\ Len(trace) >= 1
     /\ trace[1].op = "fetch_catalogs"
     /\ trace[1].wire = "malformed")
        => /\ results["catalogs"] = "Err"
           /\ trace[1].err = "DecodeError"
           /\ Events("write_catalogs") = {}
           /\ catalogsTbl = atCall.catalogs

C5_Witness ==
    /\ phase = "catalogs"
    /\ Len(trace) = 1
    /\ trace[1].wire = "malformed"
    /\ results["catalogs"] = "Err"
    /\ pc = "main"

(* C6: whatever error a phase meets, main invokes the three phases, in the  *)
(* order catalogs, schemas, tables, and is returned a result by each.       *)
C6_EveryPhaseInvoked ==
    /\ \E n \in 0..3 : invoked = SubSeq(Phases, 1, n)
    /\ pc \in {"exit", "panicked"} =>
          /\ invoked = Phases
          /\ \A p \in Kinds : results[p] \in {"Ok", "Err"}

\* the positions before k of the records for which write_<kind> has a statement
Prefix(kind, items, k) == {i \in 1..(k - 1) : Writes(kind, items[i])}

\* the copies of row r a table holds once the statements of the records before
\* position k have succeeded, in order, on the table `before`
CopiesAfterPrefix(kind, before, items, k, r) ==
    LET same == {i \in Prefix(kind, items, k) :
                    NaturalKey(kind, RowOf(kind, items[i])) = NaturalKey(kind, r)}
    IN  IF same = {} THEN CopiesIn(r, before)
        ELSE IF \E i \in same : (\A j \in same : j <= i) /\ RowOf(kind, items[i]) = r
             THEN 1
             ELSE 0

(* C7: when the statement of record k of a write_* call fails, the call     *)
(* returns an error; its statements are those of the records up to k, in    *)
(* collection order, one each; the table holds what the statements of      *)
(* records 1..k-1 left in it; no statement is executed after the k-th.     *)
C7_FailureStopsTheCall ==
    LET kind == lastCall.kind
        items == Items(kind, lastCall.coll)
        k == lastCall.failAt
        stmts == lastCall.stmts
        rows == DOMAIN Store[kind] \cup DOMAIN lastCall.before[kind]
                    \cup {RowOf(kind, items[i]) : i \in 1..Len(items)}
    IN  (kind \in Kinds /\ k \in 1..Len(items) /\ Writes(kind, items[k])) =>
            /\ lastCall.result = "Err"
            /\ Len(stmts) = Cardinality(Prefix(kind, items, k)) + 1
            /\ \A j \in 1..Len(stmts) :
                  /\ stmts[j].idx <= k
                  /\ stmts[j].ok = (stmts[j].idx < k)
                  /\ stmts[j].row = RowOf(kind, items[stmts[j].idx])
                  /\ \A j2 \in 1..(j - 1) : stmts[j2].idx < stmts[j].idx
            /\ \A r \in rows :
                  CopiesIn(r, Store[kind])
                      = CopiesAfterPrefix(kind, lastCall.before[kind], items, k, r)
            /\ \A other \in Kinds \ {kind} : Store[other] = lastCall.before[other]

C7_Witness ==
    /\ lastCall.kind = "tables"
    /\ lastCall.failAt = 2
    /\ lastCall.result = "Err"
    /\ lastCall.before.tables = EmptyBag
    /\ Len(lastCall.coll.tables.items) = 2
    /\ tablesTbl = SetToBag({TableRow(lastCall.coll.tables.items[1])})
    /\ TableKey(lastCall.coll.tables.items[1]) # TableKey(lastCall.coll.tables.items[2])

\* the position of the record called `name` in a list of unique names (0: none)
Pos(items, name) ==
    IF \E k \in 1..Len(items) : items[k].name = name
    THEN CHOOSE k \in 1..Len(items) : items[k].name = name
    ELSE 0

\* the position of the last request `op` before position i (0: none)
LastBefore(op, i) ==
    IF \E j \in 1..(i - 1) : trace[j].op = op
    THEN CHOOSE j \in 1..(i - 1) :
            trace[j].op = op /\ \A j2 \in (j + 1)..(i - 1) : trace[j2].op # op
    ELSE 0

\* the phase writes what request e returned
ToWrite(e) ==
    \/ phase = "schemas" /\ e.op = "fetch_schemas" /\ e.ok
    \/ phase = "tables" /\ e.op = "fetch_tables" /\ e.ok /\ e.val.tables.some

(* C8: in refresh_all_schemas and refresh_all_tables, a schema request      *)
(* names a catalog that the catalogs request of the run returned and that  *)
(* is not excluded; a table request names the catalog of the last schema   *)
(* request and a schema it returned; siblings are requested in the order   *)
(* of the response; every write is that of the collection returned by the  *)
(* request just before it, and no request is made between a request and    *)
(* the write of what it returned.                                          *)
C8_DepthFirstWriteAfterFetch ==
    phase \in {"schemas", "tables"} =>
        /\ \A i \in Events("fetch_schemas") :
              LET j == LastBefore("fetch_catalogs", i)
                  p == LastBefore("fetch_schemas", i)
              IN  /\ j > 0
                  /\ trace[j].ok
                  /\ \E c \in Returned : c.name = trace[i].catalog /\ ~Excluded(c)
                  /\ p > 0 => Pos(trace[j].val.catalogs, trace[p].catalog)
                                  < Pos(trace[j].val.catalogs, trace[i].catalog)
        /\ \A i \in Events("fetch_tables") :
              LET j == LastBefore("fetch_schemas", i)
                  p == LastBefore("fetch_tables", i)
              IN  /\ j > 0
                  /\ trace[j].ok
                  /\ trace[j].catalog = trace[i].catalog
                  /\ Pos(trace[j].val.schemas.items, trace[i].schema) > 0
                  /\ p > j => Pos(trace[j].val.schemas.items, trace[p].schema)
                                  < Pos(trace[j].val.schemas.items, trace[i].schema)
        /\ \A i \in 1..Len(trace) :
              /\ (ToWrite(trace[i]) /\ i < Len(trace)) =>
                    /\ IsWrite(trace[i + 1])
                    /\ trace[i + 1].val = trace[i].val
              /\ IsWrite(trace[i]) =>
                    /\ i > 1
                    /\ ToWrite(trace[i - 1])
                    /\ trace[i].val = trace[i - 1].val

C8_Witness ==
    /\ phase = "tables"
    /\ Cardinality(Events("fetch_schemas")) = 2
    /\ Cardinality(Events("fetch_tables")) = 3
    /\ Cardinality(Events("write_tables")) = 3
    /\ \A i \in Events("write_tables") : trace[i].stmts # <<>>

(* C9: in refresh_all_schemas exactly one pause, of one second, lies        *)
(* between the schema requests of two consecutive included catalogs, and    *)
(* every pause follows a schema request with no other pause in between     *)
(* (an excluded catalog causes none).                                      *)
C9_OnePauseBetweenCatalogs ==
    phase = "schemas" =>
        /\ \A i \in Events("fetch_schemas") :
              LET p == LastBefore("fetch_schemas", i) IN
              p > 0 => /\ Cardinality({k \in Events("sleep") : p < k /\ k < i}) = 1
                       /\ \A k \in Events("sleep") : trace[k].secs = 1
        /\ \A k \in Events("sleep") :
              LastBefore("fetch_schemas", k) > LastBefore("sleep", k)

C9_Witness ==
    /\ phase = "schemas"
    /\ Cardinality(Events("fetch_schemas")) = 2
    /\ Cardinality(Events("sleep")) = 2

\* request or write i of the schemas of a catalog failed
SchemasFailed(i) ==
    /\ trace[i].op \in {"fetch_schemas", "write_schemas"}
    /\ ~trace[i].ok

(* C10: in refresh_all_schemas, a schema request or schema write that fails *)
(* is the last thing the run does: the run has ended, no request and no    *)
(* write follows; and the rows of every statement that succeeded before    *)
(* are in the schemas table.                                               *)
C10_NoSkipAndContinue ==
    phase = "schemas" =>
        \A i \in 1..Len(trace) : SchemasFailed(i) =>
            /\ i = Len(trace)
            /\ pc \in {"main", "panicked"}
            /\ \A j \in Events("write_schemas") :
                  \A m \in 1..Len(trace[j].stmts) :
                      trace[j].stmts[m].ok =>
                          CopiesIn(trace[j].stmts[m].row, schemasTbl) = 1

C10_Witness ==
    /\ phase = "schemas"
    /\ Len(trace) = 5
    /\ trace[3].op = "write_schemas" /\ Len(trace[3].stmts) = 2
    /\ trace[5].op = "fetch_schemas" /\ ~trace[5].ok
    /\ pc = "main"

\* the keys under which the table holds a row
Keys(kind, tbl) == {NaturalKey(kind, r) : r \in DOMAIN tbl}

(* C11: no step of refresh_catalogs, refresh_all_schemas or                 *)
(* refresh_all_tables, in any sequence of runs, successful or failed,       *)
(* removes a key from a table: the keys of each of the three tables after   *)
(* the step include those before it.                                        *)
C11_RowsNeverRemoved ==
    [][\A kind \in Kinds : Keys(kind, Store[kind]) \subseteq Keys(kind, Store'[kind])]_vars

\* a later refresh_catalogs returned share as a delta sharing catalog and not
\* main, wrote the catalog it returned beside it and succeeded; a refresh of
\* the schemas ran before it; the rows of main and share are still stored
C11_Witness ==
    /\ Len(invoked) = MaxRuns
    /\ invoked[1] = "schemas"
    /\ phase = "catalogs"
    /\ pc = "main"
    /\ results["catalogs"] = "Ok"
    /\ Len(trace) = 2
    /\ trace[1].ok
    /\ \E i \in 1..Len(trace[1].val.catalogs) :
          /\ trace[1].val.catalogs[i].name = "share"
          /\ trace[1].val.catalogs[i].catalog_type = "DELTASHARING_CATALOG"
    /\ \A i \in 1..Len(trace[1].val.catalogs) : trace[1].val.catalogs[i].name # "main"
    /\ Len(trace[2].stmts) = 1
    /\ trace[2].stmts[1].ok
    /\ {<<"main">>, <<"share">>} \subseteq Keys("catalogs", catalogsTbl)
    /\ <<"main", "s1">> \in Keys("schemas", schemasTbl)
    /\ <<"share", "s1", "t1">> \in Keys("tables", tablesTbl)

====
